---- MODULE Spec2Model ----
(***************************************************************************)
(* Model of _wheel2deb/debian.py: the SourcePackage descriptor built from  *)
(* a wheel (architecture, interpreter dependencies, build dependencies),   *)
(* SourcePackage.create() and the shared-library dependency resolver       *)
(* SourcePackage.search_shlibs_deps().                                     *)
(*                                                                         *)
(* Python strings the code formats, slices or measures are sequences of    *)
(* one-character strings, so that '%' formatting is concatenation, [15:]   *)
(* and [-3:] are slices and len() is Len.  Platform tags and library file  *)
(* names are only ever used as dictionary keys or passed on unchanged, and *)
(* stay atomic.                                                            *)
(***************************************************************************)
EXTENDS Naturals, Sequences, FiniteSets, TLC

\* ------------------------------------------------------------ bounds

\* Conversion sessions run one after the other on the same output directory.
MaxRuns == 2
\* Diagnostic lines naming a missing library in one analyzer output.
MaxReported == 2

\* ------------------------------------------------------------ strings

S_python ==
    <<"p", "y", "t", "h", "o", "n">>
S_python3 ==
    <<"p", "y", "t", "h", "o", "n", "3">>
S_any ==
    <<":", "a", "n", "y">>
S_lt ==
    <<" ", "(", "<", "<", " ">>
S_ge ==
    <<" ", "(", ">", "=", " ">>
S_close ==
    <<")">>
S_fuzz ==
    <<"~", ")">>
S_colon ==
    <<":">>
S_debhelper ==
    <<"d", "e", "b", "h", "e", "l", "p", "e", "r">>
S_all ==
    <<"a", "l", "l">>
S_amd64 ==
    <<"a", "m", "d", "6", "4">>
S_i686 ==
    <<"i", "6", "8", "6">>
S_armhf ==
    <<"a", "r", "m", "h", "f">>
S_dbg ==
    <<"d", "b", "g">>

\* Values the collaborators hand in (version bounds, package names, file texts).
V_32 ==
    <<"3", ".", "2">>
V_40 ==
    <<"4", ".", "0">>
P_six ==
    <<"p", "y", "t", "h", "o", "n", "3", "-", "s", "i", "x">>
P_extra ==
    <<"c", "a", "-", "c", "e", "r", "t", "i", "f", "i", "c", "a", "t", "e", "s">>
P_libfoo_dev ==
    <<"l", "i", "b", "f", "o", "o", "-", "d", "e", "v">>
P_libfoo1 ==
    <<"l", "i", "b", "f", "o", "o", "1">>
P_libfoo1_dbg ==
    <<"l", "i", "b", "f", "o", "o", "1", "-", "d", "b", "g">>
P_libfoo2 ==
    <<"l", "i", "b", "f", "o", "o", "2">>
P_libc6 ==
    <<"l", "i", "b", "c", "6">>
P_libz1 ==
    <<"l", "i", "b", "z", "1">>
P_hlibs ==
    <<"h", "l", "i", "b", "s", ":", "D", "e", "p", "e", "n", "d", "s">>
\* "shlibs:Depends=libc6 (>= 2.4), libfoo1\n"
T_resolved ==
    <<"s", "h", "l", "i", "b", "s", ":", "D", "e", "p", "e", "n", "d", "s", "=",
      "l", "i", "b", "c", "6", " ", "(", ">", "=", " ", "2", ".", "4", ")", ",",
      " ", "l", "i", "b", "f", "o", "o", "1", "\n">>
\* "shlibs:Depends=\n"
T_nodeps ==
    <<"s", "h", "l", "i", "b", "s", ":", "D", "e", "p", "e", "n", "d", "s", "=", "\n">>
\* "misc:Depends=\nshlibs:Depends=libz1\n"
T_misc ==
    <<"m", "i", "s", "c", ":", "D", "e", "p", "e", "n", "d", "s", "=", "\n",
      "s", "h", "l", "i", "b", "s", ":", "D", "e", "p", "e", "n", "d", "s", "=",
      "l", "i", "b", "z", "1", "\n">>

\* ------------------------------------------------------------ inputs

\* wheel.arch_tag: the keys of DEBIAN_VERS_ARCH and tags it does not know.
KnownTags ==
    {"manylinux1_x86_64", "manylinux1_i686", "linux_armv7l", "linux_armv6l",
     "linux_x86_64", "linux_i686", "any"}
UnknownTags == {"win_amd64"}
PlatformTags == KnownTags \cup UnknownTags

\* ctx.python_version.major
PyMajors == {2, 3}

\* wheel.version_range(pyvers): nothing declared (falsy), or a range whose
\* min and max are each a version string or None.  None and '' are both
\* falsy in the tests of lines 87 and 90 and are the empty sequence here.
NoRange == [declared |-> FALSE, min |-> <<>>, max |-> <<>>]
VersionRanges ==
    {NoRange} \cup [declared : {TRUE}, min : {<<>>, V_32}, max : {<<>>, V_40}]

\* search_python_deps(ctx, wheel, extras)[0] and ctx.depends
PythonDeps == {<<>>, <<P_six>>}
CtxDepends == {<<>>, <<P_extra>>}

\* wheel.record.lib_dirs
LibDirs == {{}, {"pkg.libs"}}

\* Library names dpkg-shlibdeps may report as missing.
Libs == {"libfoo.so.1", "libbar.so.2"}

\* debian/substvars: absent, or a file with one of these texts.
NoFile == [exists |-> FALSE, text |-> <<>>]
FileTexts == {<<>>, T_nodeps, T_resolved, T_misc}
SubstvarsFiles == {NoFile} \cup [exists : {TRUE}, text : FileTexts]

\* set(APT_FILE_RE.findall(output)) for one apt-file search.
AptAnswers ==
    { {},
      {P_libfoo1_dbg},
      {P_libfoo_dev, P_libfoo1, P_libfoo1_dbg},
      {P_libfoo1, P_libfoo2} }

\* ------------------------------------------------------------ helpers

\* The sequences of length at most n over S.
SeqsUpTo(S, n) == UNION {[1..k -> S] : k \in 0..n}

\* The orders in which iterating over the Python set S can yield its elements.
IterationOrders(S) ==
    {q \in [1..Cardinality(S) -> S] : {q[i] : i \in DOMAIN q} = S}

Range(q) == {q[i] : i \in DOMAIN q}

\* ------------------------------------------------------------ __init__

DEBIAN_VERS_ARCH ==
    [t \in KnownTags |->
        CASE t = "manylinux1_x86_64" -> S_amd64
          [] t = "manylinux1_i686" -> S_i686
          [] t = "linux_armv7l" -> S_armhf
          [] t = "linux_armv6l" -> S_armhf
          [] t = "linux_x86_64" -> S_amd64
          [] t = "linux_i686" -> S_amd64
          [] t = "any" -> S_all]

\* Lines 72-76: the architecture and whether the unknown-tag error is logged.
ArchAlwaysAll(tag) == [arch |-> S_all, logged |-> FALSE]
ResolveArch(tag) ==
    IF tag \in DOMAIN DEBIAN_VERS_ARCH
    THEN [arch |-> DEBIAN_VERS_ARCH[tag], logged |-> FALSE]
    ELSE [arch |-> S_all, logged |-> TRUE]

\* Line 81
Interpreter(major) == IF major = 2 THEN S_python ELSE S_python3

\* Line 84: '%s:any' % self.interpreter
BaseDep(interp) == interp \o S_any
\* Line 89: '%s (<< %s)' % (self.interpreter, vrange.max)
MaxDep(interp, v) == interp \o S_lt \o v \o S_close
\* Line 92: '%s (>= %s~)' % (self.interpreter, vrange.min)
MinDepOnBase(interp, v) == BaseDep(interp) \o S_ge \o v \o S_fuzz
MinDep(interp, v) == interp \o S_ge \o v \o S_fuzz

\* Lines 84-92: the interpreter-derived dependencies.
InterpreterDeps(interp, vrange) ==
    <<BaseDep(interp)>>
    \o (IF vrange.declared /\ vrange.max # <<>>
        THEN <<MaxDep(interp, vrange.max)>> ELSE <<>>)
    \o (IF vrange.declared /\ vrange.min # <<>>
        THEN <<MinDep(interp, vrange.min)>> ELSE <<>>)

\* Lines 84-96
Depends(interp, vrange, pydeps, ctxdeps) ==
    InterpreterDeps(interp, vrange) \o pydeps \o ctxdeps

\* Line 98
InitialBuildDeps == {S_debhelper}

\* ------------------------------------------------------------ parsing

IsSpace(c) == c \in {" ", "\n", "\t"}
\* [^=\s,()]
NameChar(c) == ~IsSpace(c) /\ c \notin {"=", ",", "(", ")"}

\* ([^=\s,()]+): the index just past the longest run of name characters at i.
RECURSIVE NameEnd(_, _)
NameEnd(s, i) ==
    IF i <= Len(s) /\ NameChar(s[i]) THEN NameEnd(s, i + 1) ELSE i

\* \s?
AfterSpace(s, j) == IF j <= Len(s) /\ IsSpace(s[j]) THEN j + 1 ELSE j

\* The index of the first ")" at or after k, or 0.
RECURSIVE CloseParen(_, _)
CloseParen(s, k) ==
    IF k > Len(s) THEN 0
    ELSE IF s[k] = ")" THEN k ELSE CloseParen(s, k + 1)

\* (?:\([^)]+\))?
AfterParen(s, k) ==
    IF k <= Len(s) /\ s[k] = "("
    THEN LET c == CloseParen(s, k + 1)
         IN IF c > k + 1 THEN c + 1 ELSE k
    ELSE k

\* re.findall(r'([^=\s,()]+)\s?(?:\([^)]+\))?', s) scanning from index i.
RECURSIVE FindNames(_, _)
FindNames(s, i) ==
    IF i > Len(s) THEN <<>>
    ELSE IF NameChar(s[i])
         THEN LET e == NameEnd(s, i)
              IN <<SubSeq(s, i, e - 1)>>
                 \o FindNames(s, AfterParen(s, AfterSpace(s, e)))
         ELSE FindNames(s, i + 1)

\* Line 272: read_text()[15:]
DropKey(text) == SubSeq(text, 16, Len(text))

\* Lines 270-274, parse_substvars(): what the file adds to shlibdeps.
ParseIgnoresFile(file) == {}
ParseSubstvars(file) ==
    IF file.exists THEN Range(FindNames(DropKey(file.text), 1)) ELSE {}

\* ------------------------------------------------------------ selection

\* Line 299: p[-3:] != 'dbg'
IsDbg(p) == SubSeq(p, IF Len(p) > 3 THEN Len(p) - 2 ELSE 1, Len(p)) = S_dbg

\* Line 299: [p for p in packages if p[-3:] != 'dbg']
RemoveDbg(q) == SelectSeq(q, LAMBDA p : ~IsDbg(p))

\* sorted(packages, key=len) is stable: p, which comes before every element
\* of q in the list, stays before those of q that are not shorter.
RECURSIVE InsertByLen(_, _)
InsertByLen(p, q) ==
    IF q = <<>> THEN <<p>>
    ELSE IF Len(p) <= Len(q[1]) THEN <<p>> \o q
         ELSE <<q[1]>> \o InsertByLen(p, Tail(q))

\* Line 305
RECURSIVE SortedByLen(_)
Unsorted(q) == q
SortedByLen(q) ==
    IF q = <<>> THEN <<>>
    ELSE InsertByLen(q[1], SortedByLen(Tail(q)))

\* Lines 301-306: what the loop body adds to shlibdeps.
Select(packages) ==
    IF Len(packages) = 0 THEN {} ELSE {SortedByLen(packages)[1]}

\* Line 317: p+':'+self.arch
Untagged(p, a) == p
Tagged(p, a) == p \o S_colon \o a

\* ------------------------------------------------------------ shell

\* tools.shell(args) either returns (output, status) or fails: the tool
\* cannot be run, or exits in a way the caller does not expect.
ShellOutcomes == {"returned", "failed"}

\* Lines 284, 295 and 238: neither search_shlibs_deps nor create handles a
\* failure of shell, so the conversion ends there whatever would have come
\* next.
ContinueAfterError(next) == next
OnShellError(next) == "aborted"

\* Line 279
AnalyzerWheneverLibDirs(lib_dirs, deps) == lib_dirs # {}
AnalyzerWheneverNoDeps(lib_dirs, deps) == deps = {}
NeedAnalyzer(lib_dirs, deps) == lib_dirs # {} /\ deps = {}

\* ------------------------------------------------------------ state

VARIABLES
    wheel,            \* arch_tag, version_range, record.lib_dirs, python deps
    ctx,              \* python_version.major, depends
    arch,             \* self.arch
    interpreter,      \* self.interpreter
    depends,          \* self.depends
    build_deps,       \* self.build_deps
    logged,           \* kinds of messages sent to the logger
    substvars,        \* the file debian/substvars
    controlFile,      \* the file debian/control: what it was last rendered from
    pc,               \* position in create()
    run,              \* number of the conversion session
    calls,            \* the methods create() has called, in order
    shlibdeps,        \* local of search_shlibs_deps
    missing_libs,     \* local of search_shlibs_deps
    pending,          \* libraries the loop of line 294 has yet to visit
    analyzerCalls,    \* dpkg-shlibdeps invocations of this session
    aptCalls,         \* apt-file invocations of this session, per library
    offered,          \* the candidates apt-file returned, per library
    chosen,           \* the provider picked, per library
    selections,       \* every (library, candidates, pick) of all sessions
    substvarsAtStart, \* debian/substvars when search_shlibs_deps started
    shellFailed       \* a shell call of this session failed

vars ==
    <<wheel, ctx, arch, interpreter, depends, build_deps, logged, substvars,
      controlFile, pc, run, calls, shlibdeps, missing_libs, pending,
      analyzerCalls, aptCalls, offered, chosen, selections, substvarsAtStart,
      shellFailed>>

\* Every wheel and context: all platform tags, interpreters, version ranges.
Wheels ==
    [arch_tag : PlatformTags, vrange : VersionRanges, lib_dirs : LibDirs,
     pydeps : PythonDeps]
Contexts == [major : PyMajors, depends : CtxDepends]

\* Pure-Python wheels: no native library directory.
PureWheels == {w \in Wheels : w.lib_dirs = {}}

\* Wheels for a Python 3 target that differ in what the resolver reads:
\* the library directories, and a known or an unknown platform tag.
NativeTags == {"linux_x86_64", "linux_armv7l", "win_amd64"}
ResolverWheels ==
    {w \in Wheels : /\ w.arch_tag \in NativeTags
                    /\ w.vrange = NoRange
                    /\ w.pydeps = <<>>}
ResolverContexts == {c \in Contexts : c.major = 3 /\ c.depends = <<>>}

NoControl == [written |-> FALSE, build_deps |-> {}, depends |-> <<>>, arch |-> <<>>]

\* Lines 241-246: the template is rendered from the package as it is now.
dump_tpl == [written |-> TRUE, build_deps |-> build_deps, depends |-> depends,
             arch |-> arch]

\* Lines 39-108: the fields of a new SourcePackage, and the locals and
\* counters of a session that has not called anything yet.
Constructed(w, c) ==
    /\ wheel' = w
    /\ ctx' = c
    /\ arch' = ResolveArch(w.arch_tag).arch
    /\ logged' = IF ResolveArch(w.arch_tag).logged THEN {"unknown_tag"} ELSE {}
    /\ interpreter' = Interpreter(c.major)
    /\ depends' = Depends(Interpreter(c.major), w.vrange, w.pydeps, c.depends)
    /\ build_deps' = InitialBuildDeps
    /\ pc' = "constructed"
    /\ calls' = <<>>
    /\ shlibdeps' = {}
    /\ missing_libs' = {}
    /\ pending' = {}
    /\ analyzerCalls' = 0
    /\ aptCalls' = [l \in Libs |-> 0]
    /\ offered' = [l \in Libs |-> {}]
    /\ chosen' = [l \in Libs |-> {}]
    /\ substvarsAtStart' = NoFile
    /\ shellFailed' = FALSE

\* The state after SourcePackage(ctx, wheel) for a wheel of W, a context of
\* C and an output directory whose debian/substvars is one of F.
InitOf(W, C, F) ==
    /\ wheel \in W
    /\ ctx \in C
    /\ arch = ResolveArch(wheel.arch_tag).arch
    /\ logged = IF ResolveArch(wheel.arch_tag).logged THEN {"unknown_tag"} ELSE {}
    /\ interpreter = Interpreter(ctx.major)
    /\ depends = Depends(Interpreter(ctx.major), wheel.vrange, wheel.pydeps, ctx.depends)
    /\ build_deps = InitialBuildDeps
    /\ substvars \in F
    /\ controlFile = NoControl
    /\ pc = "constructed"
    /\ run = 1
    /\ calls = <<>>
    /\ shlibdeps = {}
    /\ missing_libs = {}
    /\ pending = {}
    /\ analyzerCalls = 0
    /\ aptCalls = [l \in Libs |-> 0]
    /\ offered = [l \in Libs |-> {}]
    /\ chosen = [l \in Libs |-> {}]
    /\ selections = {}
    /\ substvarsAtStart = NoFile
    /\ shellFailed = FALSE

Init == InitOf(ResolverWheels, ResolverContexts, SubstvarsFiles)

InitDescriptor == InitOf(PureWheels, Contexts, {NoFile})

descriptor == <<wheel, ctx, arch, interpreter, depends, logged>>
locals == <<shlibdeps, missing_libs, pending>>
lookups == <<aptCalls, offered, chosen, selections>>

\* Lines 224-235: the first pass writes every file, debian/control first.
FirstPass ==
    /\ pc = "constructed"
    /\ calls' = <<"fix_shebangs", "control", "compat", "changelog", "install",
                  "rules", "copyright", "postinst", "prerm">>
    /\ controlFile' = dump_tpl
    /\ pc' = "search"
    /\ UNCHANGED <<descriptor, build_deps, substvars, run, locals,
                   analyzerCalls, lookups, substvarsAtStart, shellFailed>>

\* Lines 238, 262-277: search_shlibs_deps is entered and reads debian/substvars.
SearchStart ==
    /\ pc = "search"
    /\ calls' = Append(calls, "search_shlibs_deps")
    /\ substvarsAtStart' = substvars
    /\ shlibdeps' = ParseSubstvars(substvars)
    /\ missing_libs' = {}
    /\ pc' = "analyze"
    /\ UNCHANGED <<descriptor, build_deps, substvars, controlFile, run, pending,
                   analyzerCalls, lookups, shellFailed>>

\* Lines 279-287: dpkg-shlibdeps runs, may write debian/substvars and names
\* the libraries it could not find; the file is read again.  reported is
\* the list DPKG_SHLIBS_RE.findall returns for the output.
RunAnalyzer ==
    /\ pc = "analyze"
    /\ NeedAnalyzer(wheel.lib_dirs, shlibdeps)
    /\ "returned" \in ShellOutcomes
    /\ \E reported \in SeqsUpTo(Libs, MaxReported), file \in SubstvarsFiles :
          /\ file.exists \/ ~substvars.exists
          /\ substvars' = file
          /\ missing_libs' = missing_libs \cup Range(reported)
          /\ pending' = missing_libs \cup Range(reported)
          /\ shlibdeps' = shlibdeps \cup ParseSubstvars(file)
    /\ analyzerCalls' = analyzerCalls + 1
    /\ pc' = "lookup"
    /\ UNCHANGED <<descriptor, build_deps, controlFile, run, calls, lookups,
                   substvarsAtStart, shellFailed>>

\* Line 284 when shell fails.
AnalyzerFails ==
    /\ pc = "analyze"
    /\ NeedAnalyzer(wheel.lib_dirs, shlibdeps)
    /\ "failed" \in ShellOutcomes
    /\ analyzerCalls' = analyzerCalls + 1
    /\ shellFailed' = TRUE
    /\ pc' = OnShellError("lookup")
    /\ UNCHANGED <<descriptor, build_deps, substvars, controlFile, run, calls,
                   locals, lookups, substvarsAtStart>>

\* Line 279 when the condition is false.
SkipAnalyzer ==
    /\ pc = "analyze"
    /\ ~NeedAnalyzer(wheel.lib_dirs, shlibdeps)
    /\ pc' = "lookup"
    /\ UNCHANGED <<descriptor, build_deps, substvars, controlFile, run, calls,
                   locals, analyzerCalls, lookups, substvarsAtStart, shellFailed>>

\* Lines 294-312: one iteration of the loop over missing_libs.  The set
\* of candidates is iterated in an order the code does not control.
QueryIndex ==
    /\ pc = "lookup"
    /\ "returned" \in ShellOutcomes
    /\ \E lib \in pending, answer \in AptAnswers :
         \E order \in IterationOrders(answer) :
            LET packages == RemoveDbg(order)
                pick == Select(packages)
            IN /\ shlibdeps' = shlibdeps \cup pick
               /\ pending' = pending \ {lib}
               /\ aptCalls' = [aptCalls EXCEPT ![lib] = @ + 1]
               /\ offered' = [offered EXCEPT ![lib] = answer]
               /\ chosen' = [chosen EXCEPT ![lib] = pick]
               /\ selections' = selections \cup
                     {[lib |-> lib, candidates |-> answer, pick |-> p] : p \in pick}
               /\ logged' = logged
                     \cup (IF Len(packages) = 0 THEN {"no_provider"} ELSE {})
                     \cup (IF Len(packages) > 1 THEN {"several_providers"} ELSE {})
    /\ UNCHANGED <<wheel, ctx, arch, interpreter, depends, build_deps, substvars,
                   controlFile, pc, run, calls, missing_libs, analyzerCalls,
                   substvarsAtStart, shellFailed>>

\* Line 295 when shell fails.
IndexFails ==
    /\ pc = "lookup"
    /\ "failed" \in ShellOutcomes
    /\ \E lib \in pending :
         /\ aptCalls' = [aptCalls EXCEPT ![lib] = @ + 1]
         /\ pending' = IF OnShellError("lookup") = "lookup"
                       THEN pending \ {lib} ELSE pending
    /\ shellFailed' = TRUE
    /\ pc' = OnShellError("lookup")
    /\ UNCHANGED <<descriptor, build_deps, substvars, controlFile, run, calls,
                   shlibdeps, missing_libs, analyzerCalls, offered, chosen,
                   selections, substvarsAtStart>>

\* Lines 289, 314-317: after the loop, or with nothing missing.
UpdateBuildDeps ==
    /\ pc = "lookup"
    /\ pending = {}
    /\ build_deps' = build_deps \cup {Tagged(p, arch) : p \in shlibdeps}
    /\ pc' = "control"
    /\ UNCHANGED <<descriptor, substvars, controlFile, run, calls, locals,
                   analyzerCalls, lookups, substvarsAtStart, shellFailed>>

\* Line 239
SecondPassSkipped ==
    /\ pc = "control"
    /\ pc' = "done"
    /\ UNCHANGED <<descriptor, build_deps, substvars, controlFile, run, calls,
                   locals, analyzerCalls, lookups, substvarsAtStart, shellFailed>>
SecondPass ==
    /\ pc = "control"
    /\ calls' = Append(calls, "control")
    /\ controlFile' = dump_tpl
    /\ pc' = "done"
    /\ UNCHANGED <<descriptor, build_deps, substvars, run, locals,
                   analyzerCalls, lookups, substvarsAtStart, shellFailed>>

\* The same wheel is converted again into the same directory: a new
\* SourcePackage (lines 39-108), the files of the earlier session still there.
Rerun ==
    /\ pc \in {"done", "aborted"}
    /\ run < MaxRuns
    /\ run' = run + 1
    /\ Constructed(wheel, ctx)
    /\ UNCHANGED <<substvars, controlFile, selections>>

Next ==
    \/ FirstPass
    \/ SearchStart
    \/ RunAnalyzer
    \/ AnalyzerFails
    \/ SkipAnalyzer
    \/ QueryIndex
    \/ IndexFails
    \/ UpdateBuildDeps
    \/ SecondPass
    \/ Rerun

Spec == Init /\ [][Next]_vars

\* Sessions of pure-Python wheels in a fresh directory: every descriptor the
\* constructor can build, and the steps create() takes for such a wheel.
NextDescriptor ==
    \/ FirstPass
    \/ SearchStart
    \/ SkipAnalyzer
    \/ UpdateBuildDeps
    \/ SecondPass
    \/ Rerun

SpecDescriptor == InitDescriptor /\ [][NextDescriptor]_vars

\* ------------------------------------------------------------ properties

\* The names written in each text of FileTexts after its first 15
\* characters, read off the text by hand.
NamesIn(file) ==
    IF ~file.exists THEN {}
    ELSE CASE file.text = T_resolved -> {P_libc6, P_libfoo1}
           [] file.text = T_misc -> {P_hlibs, P_libz1}
           [] OTHER -> {}

\* p + ':' + arch for every p of P.
ArchTagged(P) == {p \o <<":">> \o arch : p \in P}

EndsWithDbg(p) ==
    Len(p) >= 3 /\ SubSeq(p, Len(p) - 2, Len(p)) = <<"d", "b", "g">>
NonDbg(P) == {p \in P : ~EndsWithDbg(p)}

NoAptCalls == \A l \in Libs : aptCalls[l] = 0
Picked == UNION {chosen[l] : l \in Libs}
Returned == pc \in {"control", "done"}

FirstPassCalls ==
    <<"fix_shebangs", "control", "compat", "changelog", "install", "rules",
      "copyright", "postinst", "prerm">>
SearchCalls == {i \in DOMAIN calls : calls[i] = "search_shlibs_deps"}
ControlCalls == {i \in DOMAIN calls : calls[i] = "control"}

\* C1: when search_shlibs_deps starts with a debian/substvars that exists and
\* holds at least one name, neither dpkg-shlibdeps nor apt-file is invoked in
\* that call, the dependency set is exactly the names in the file, and
\* build_deps gains exactly those names, tagged.
CacheShortCircuit ==
    (substvarsAtStart.exists /\ NamesIn(substvarsAtStart) # {})
    => /\ analyzerCalls = 0
       /\ NoAptCalls
       /\ pc # "aborted"
       /\ shlibdeps = NamesIn(substvarsAtStart)
       /\ Returned =>
            build_deps = InitialBuildDeps \cup ArchTagged(NamesIn(substvarsAtStart))

CacheShortCircuitWitness ==
    /\ pc = "done"
    /\ wheel.lib_dirs # {}
    /\ substvarsAtStart.exists
    /\ substvarsAtStart.text = T_resolved
    /\ analyzerCalls = 0
    /\ ArchTagged({P_libc6, P_libfoo1}) \subseteq build_deps

\* C2 as stated: whenever debian/substvars exists when search_shlibs_deps
\* starts, whatever its content, the analyzer is never invoked.
CacheHitOnExistence ==
    substvarsAtStart.exists => analyzerCalls = 0

\* C2 amended: an existing debian/substvars keeps the analyzer from running
\* when it holds at least one name or the wheel declares no library
\* directory; when it holds none and the wheel declares library directories
\* the analyzer is invoked, once.
CacheHitOnParsedContent ==
    /\ (substvarsAtStart.exists
        /\ (NamesIn(substvarsAtStart) # {} \/ wheel.lib_dirs = {}))
       => analyzerCalls = 0
    /\ (substvarsAtStart.exists /\ NamesIn(substvarsAtStart) = {}
        /\ wheel.lib_dirs # {} /\ pc \in {"lookup", "control", "done"})
       => analyzerCalls = 1

CacheHitOnRerunWitness ==
    /\ run = 2
    /\ pc = "done"
    /\ wheel.lib_dirs # {}
    /\ substvarsAtStart.exists
    /\ NamesIn(substvarsAtStart) # {}
    /\ analyzerCalls = 0

\* C3 as stated: for a wheel without library directories the analyzer is
\* never invoked and build_deps after the call is build_deps before it.
NoLibDirsNoContribution ==
    wheel.lib_dirs = {}
    => /\ analyzerCalls = 0
       /\ Returned => build_deps = InitialBuildDeps

\* C3 amended: for a wheel without library directories neither the analyzer
\* nor apt-file is invoked, and build_deps gains exactly the tagged names of
\* the debian/substvars found at the start: nothing when the file is absent
\* or holds no name.
NoLibDirsContribution ==
    wheel.lib_dirs = {}
    => /\ analyzerCalls = 0
       /\ NoAptCalls
       /\ pc # "aborted"
       /\ Returned =>
            build_deps = InitialBuildDeps \cup ArchTagged(NamesIn(substvarsAtStart))
       /\ (Returned /\ NamesIn(substvarsAtStart) = {}) =>
            build_deps = InitialBuildDeps

NoLibDirsWitness ==
    /\ pc = "done"
    /\ wheel.lib_dirs = {}
    /\ ~substvarsAtStart.exists
    /\ build_deps = InitialBuildDeps

\* C4: of the candidates apt-file returns for a library, those ending in
\* 'dbg' are dropped and the provider picked is one of the shortest of the
\* rest; none is picked when nothing is left; from {libfoo-dev, libfoo1,
\* libfoo1-dbg} the pick is libfoo1.
ProviderSelection ==
    \A l \in Libs :
        /\ NonDbg(offered[l]) = {} => chosen[l] = {}
        /\ NonDbg(offered[l]) # {} =>
             \E p \in NonDbg(offered[l]) :
                /\ chosen[l] = {p}
                /\ \A q \in NonDbg(offered[l]) : Len(p) <= Len(q)
        /\ offered[l] = {P_libfoo_dev, P_libfoo1, P_libfoo1_dbg} =>
             chosen[l] = {P_libfoo1}

ProviderSelectionWitness ==
    \E l \in Libs :
        /\ offered[l] = {P_libfoo_dev, P_libfoo1, P_libfoo1_dbg}
        /\ chosen[l] = {P_libfoo1}

\* C5: two lookups of the same library that get the same set of candidates
\* pick the same provider.
DeterministicTieBreak ==
    \A a, b \in selections :
        (a.lib = b.lib /\ a.candidates = b.candidates) => a.pick = b.pick

\* C6: a library left without candidates adds no provider and does not end
\* the call: every missing library is looked up exactly once, and every
\* provider picked for the others is in build_deps, tagged with the
\* architecture.
UnresolvedNotFatal ==
    /\ pc = "aborted" => shellFailed
    /\ \A l \in Libs : NonDbg(offered[l]) = {} => chosen[l] = {}
    /\ Returned =>
         /\ \A l \in Libs : aptCalls[l] = IF l \in missing_libs THEN 1 ELSE 0
         /\ shlibdeps = NamesIn(substvars) \cup Picked
         /\ ArchTagged(Picked) \subseteq build_deps
         /\ build_deps = InitialBuildDeps \cup ArchTagged(NamesIn(substvars) \cup Picked)

UnresolvedNotFatalWitness ==
    /\ pc = "done"
    /\ \E l, m \in missing_libs :
          /\ l # m
          /\ offered[l] = {P_libfoo1_dbg}
          /\ chosen[l] = {}
          /\ chosen[m] = {P_libfoo1}
          /\ aptCalls[l] = 1
          /\ aptCalls[m] = 1
    /\ "no_provider" \in logged
    /\ ArchTagged({P_libfoo1}) \subseteq build_deps

L_ge32 ==
    <<" ", "(", ">", "=", " ", "3", ".", "2", "~", ")">>
L_lt40 ==
    <<" ", "(", "<", "<", " ", "4", ".", "0", ")">>

\* The interpreter-derived prefix of self.depends.
InterpreterPrefix ==
    SubSeq(depends, 1, Len(depends) - Len(wheel.pydeps) - Len(ctx.depends))

OnlyMin == [declared |-> TRUE, min |-> V_32, max |-> <<>>]
OnlyMax == [declared |-> TRUE, min |-> <<>>, max |-> V_40]

\* C8 as stated: with baseDep the first specifier, (min="3.2", max=None)
\* gives [baseDep, baseDep+" (>= 3.2~)"], (min=None, max="4.0") gives
\* [baseDep, baseDep+" (<< 4.0)"] and no range gives [baseDep].
VersionConstraintOnBaseDep ==
    /\ wheel.vrange = OnlyMin =>
         InterpreterPrefix = <<depends[1], depends[1] \o L_ge32>>
    /\ wheel.vrange = OnlyMax =>
         InterpreterPrefix = <<depends[1], depends[1] \o L_lt40>>
    /\ wheel.vrange = NoRange => InterpreterPrefix = <<depends[1]>>

\* C8 amended: with name the interpreter package name (python or python3)
\* and baseDep = name+":any", (min="3.2", max=None) gives
\* [baseDep, name+" (>= 3.2~)"], (min=None, max="4.0") gives
\* [baseDep, name+" (<< 4.0)"] and no range gives [baseDep].
VersionConstraint ==
    LET name == IF ctx.major = 2 THEN <<"p", "y", "t", "h", "o", "n">>
                ELSE <<"p", "y", "t", "h", "o", "n", "3">>
        baseDep == name \o <<":", "a", "n", "y">>
    IN /\ depends[1] = baseDep
       /\ wheel.vrange = OnlyMin =>
            InterpreterPrefix = <<baseDep, name \o L_ge32>>
       /\ wheel.vrange = OnlyMax =>
            InterpreterPrefix = <<baseDep, name \o L_lt40>>
       /\ (wheel.vrange = NoRange \/ (wheel.vrange.min = <<>> /\ wheel.vrange.max = <<>>))
            => InterpreterPrefix = <<baseDep>>

VersionConstraintWitness ==
    /\ run = 2
    /\ ctx.major = 3
    /\ wheel.vrange = OnlyMin
    /\ wheel.pydeps # <<>>
    /\ Len(depends) >= 3
    /\ depends[2] = <<"p", "y", "t", "h", "o", "n", "3", " ", "(", ">", "=",
                      " ", "3", ".", "2", "~", ")">>

\* C9: for a platform tag of the table the architecture is the mapped value
\* and nothing is logged about the tag; for any other tag it is 'all' and
\* the unknown-tag message is logged; the architecture is always one of the
\* table's values or 'all'.
ArchitectureResolution ==
    /\ wheel.arch_tag \in DOMAIN DEBIAN_VERS_ARCH =>
         /\ arch = DEBIAN_VERS_ARCH[wheel.arch_tag]
         /\ "unknown_tag" \notin logged
    /\ wheel.arch_tag \notin DOMAIN DEBIAN_VERS_ARCH =>
         /\ arch = <<"a", "l", "l">>
         /\ "unknown_tag" \in logged
    /\ arch \in {DEBIAN_VERS_ARCH[t] : t \in DOMAIN DEBIAN_VERS_ARCH}
                \cup {<<"a", "l", "l">>}
    /\ arch \in {S_amd64, S_i686, S_armhf, S_all}

ArchitectureFallbackWitness ==
    /\ wheel.arch_tag = "win_amd64"
    /\ arch = S_all
    /\ "unknown_tag" \in logged
    /\ pc = "done"

\* C10: create() writes debian/control before search_shlibs_deps is
\* entered, enters search_shlibs_deps at most once, and when it has run to
\* its end has entered it exactly once and written debian/control again
\* after it, from the build_deps that hold every provider picked.
TwoPassEmission ==
    /\ \A i \in SearchCalls : \E j \in ControlCalls : j < i
    /\ Cardinality(SearchCalls) <= 1
    /\ pc \in {"analyze", "lookup", "control", "aborted"} =>
         /\ Cardinality(SearchCalls) = 1
         /\ Cardinality(ControlCalls) = 1
         /\ controlFile.build_deps = InitialBuildDeps
    /\ pc = "done" =>
         /\ Cardinality(SearchCalls) = 1
         /\ Cardinality(ControlCalls) = 2
         /\ \A i \in SearchCalls : \E k \in ControlCalls : k > i /\ k = Len(calls)
         /\ controlFile.written
         /\ controlFile.build_deps = build_deps
         /\ ArchTagged(Picked) \subseteq controlFile.build_deps

TwoPassEmissionWitness ==
    /\ pc = "done"
    /\ Picked # {}
    /\ ArchTagged(Picked) \subseteq controlFile.build_deps
    /\ calls = FirstPassCalls \o <<"search_shlibs_deps", "control">>
====
